---------------------------- MODULE Spec2Model ----------------------------
(***************************************************************************)
(* Share links and storage quota of the express_fileshare backend.        *)
(*                                                                         *)
(* Spec       : the share-link routes (routes/shares.js), the share-link  *)
(*              creation routes (routes/files.js, routes/folders.js) and  *)
(*              the ShareLink model, as concurrently running requests.    *)
(* SpecUpload : the upload routes (routes/files.js), the multer           *)
(*              middleware (middleware/upload.js) and the quota check of  *)
(*              the file service.                                          *)
(* SpecAccess : views and downloads of one open file link.                *)
(* SpecZip    : folder ZIP downloads over a tree of folders, with soft    *)
(*              deletes of files and folders.                              *)
(* SpecManage, SpecDelete : creation of links by two users, soft deletes  *)
(*              of the targets and DELETE /shares/:id.                     *)
(* SpecGate   : one request on one link, every route and input.           *)
(* SpecZipPair: two overlapping ZIP requests.                             *)
(* SpecUploadFolder : uploads that name a folder.                         *)
(* SpecSubscribe : overlapping subscribe calls (payment service).         *)
(* SpecToken  : link creation with tokens drawn from a small space.       *)
(* SpecAuth   : registration and login (auth routes, User model).         *)
(* SpecFolderTree : creation, renaming and deletion of folders.           *)
(*                                                                         *)
(* A request handler is an async function: it runs without interruption   *)
(* up to its next await, so every action below is the code between two    *)
(* awaits of one handler.                                                  *)
(***************************************************************************)
EXTENDS Integers, Sequences, FiniteSets, TLC

VARIABLES
    now,        \* the clock read by new Date()
    links,      \* ShareLinks table, by row (the token is the row's key here)
    files,      \* Files table
    folders,    \* Folders table
    reqs,       \* requests, one slot per request: not yet sent (idle), in
                \* flight, or answered (done)
    users,      \* Users table
    subs,       \* Subscriptions table: the rows of each user, oldest first
    ups,        \* upload requests, one slot per request
    disk,       \* uploaded blobs present on local disk / in object storage
    temp        \* the archives present in uploads/temp, by path

vars == <<now, links, files, folders, reqs,
          users, subs, ups, disk, temp>>

shareVars  == <<now, links, reqs, temp>>
uploadVars == <<users, subs, ups, disk>>

---------------------------------------------------------------------------
(* Bounds of the model *)

MaxTime     == 1    \* the clock runs 0..MaxTime
MaxLinks    == 1    \* share-link rows that can be created
MaxRequests == 2    \* share-link requests sent in one behaviour, all of which
                    \* may be in flight at once
MaxUploads  == 1    \* upload requests sent in one behaviour
MaxSubscribes == 1  \* subscribe calls sent in one behaviour of the uploads

---------------------------------------------------------------------------
(* Values *)

Users     == {"u1", "u2"}
Anonymous == "anonymous"            \* a request carrying no JWT
Requesters == Users \cup {Anonymous}

FileIds   == {"f1"}
FolderIds == {"d1"}
NoId      == "none"                 \* a NULL foreign key

LinkIds   == 1 .. MaxLinks
\* The token of a request that has not been sent
BadToken  == 0
ReqIds    == 1 .. MaxRequests

\* expiresAt, lastAccessed: allowNull. NoDate is the NULL date.
NoDate == -1

\* permissions: ENUM('read', 'write', 'admin'), default 'read'
Permissions == {"read", "write", "admin"}
DefaultPermissions == "read"

\* A JS value that is falsy stands for "not given": the handlers only test
\* `if (shareLink.password)`, `if (!password)` and `this.maxDownloads && ...`,
\* so NULL, undefined, "" and 0 are one case each.
NoPassword == ""
Unlimited  == 0

\* bcryptjs: hash(s) is a string in the modular-crypt format; compare(s, h)
\* recomputes the hash of s under h's salt and compares, and is false for an
\* h that is no hash of s (a plain string in particular).
BcryptHash(s) == "$2a$" \o s
BcryptCompare(s, stored) == stored = BcryptHash(s)

PlainPasswords == {"pw1", "pw2"}
\* what a creator can send as `password` in POST /:id/share
SharePasswordInputs == {NoPassword, "pw1", BcryptHash("pw1")}
\* what a requester can send as ?password=
QueryPasswordInputs == {NoPassword} \cup PlainPasswords
ExpiresAtInputs     == {NoDate, 0}
MaxDownloadsInputs  == {Unlimited, 1}

Ops == {"details", "download", "folder", "zip"}

---------------------------------------------------------------------------
(* The ShareLink model *)

\* The row a slot of the table holds before ShareLink.create fills it, with
\* the column defaults of the model. exists: the row is in the table;
\* destroyed: it was, and shareLink.destroy() has removed it (the model has no
\* paranoid option: the row is gone, and its token is never issued again).
NoLink ==
    [exists |-> FALSE, destroyed |-> FALSE, userId |-> NoId, fileId |-> NoId, folderId |-> NoId,
     expiresAt |-> NoDate, password |-> NoPassword, maxDownloads |-> Unlimited,
     downloadCount |-> 0, isActive |-> TRUE, permissions |-> DefaultPermissions,
     accessCount |-> 0, lastAccessed |-> NoDate]

\* ShareLink.prototype.isExpired, at clock t
isExpired(link, t) ==
    IF link.expiresAt = NoDate THEN FALSE ELSE t > link.expiresAt

\* ShareLink.prototype.canDownload, at clock t
canDownload(link, t) ==
    IF ~link.isActive THEN FALSE
    ELSE IF isExpired(link, t) THEN FALSE
    ELSE IF link.maxDownloads # Unlimited /\ link.downloadCount >= link.maxDownloads
         THEN FALSE
    ELSE TRUE

---------------------------------------------------------------------------
(* Share-link requests *)

Results ==
    {"none", "Unauthorized", "NotFound", "Gone", "PasswordRequired",
     "PasswordInvalid", "AccessDenied", "InsufficientPermissions",
     "EmptyFolder", "ServerError", "Aborted", "Served", "Deleted"}

IdleReq ==
    [pc |-> "idle", op |-> "details", token |-> BadToken, password |-> NoPassword,
     user |-> Anonymous, link |-> NoLink, file |-> NoId, folder |-> NoId,
     allFiles |-> {}, late |-> FALSE, result |-> "none"]

\* res.status(...).json(...) / pipe(res): the handler has answered
Respond(q, res) == [q EXCEPT !.pc = "done", !.result = res]

\* ShareLink.prototype.recordDownload on the instance the request holds, up
\* to the await of save()
recordDownload(q) ==
    [q EXCEPT !.link.downloadCount = @ + 1, !.pc = "save"]

\* ShareLink.prototype.recordAccess on the instance the request holds, up to
\* the await of save()
recordAccess(q, t) ==
    [q EXCEPT !.link.accessCount = @ + 1, !.link.lastAccessed = t, !.pc = "save"]

\* The "Check permissions" block of GET /:token/download and /:token/folder
adminDenied(q) ==
    q.link.permissions = "admin" /\ (q.user = Anonymous \/ q.user # q.link.userId)

\* A tier check that would let admin links only download a ZIP
zipTierDeniedAdminOnly(q) == q.link.permissions # "admin"

\* The "Check permissions" block of GET /:token/zip
zipTierDenied(q) == q.link.permissions \notin {"write", "admin"}

\* passport.authenticate('jwt', { session: false }) used as optionalAuth:
\* a request without a valid JWT is answered 401 by passport itself.
optionalAuthPasses(user) == user # Anonymous

\* The routes that are mounted behind optionalAuth
usesOptionalAuth(op) == op \in {"download", "folder", "zip"}

\* An include that would attach the file row whether or not it is deleted
includedFileAnyRow(link) ==
    IF link.fileId # NoId /\ files[link.fileId].exists
    THEN link.fileId ELSE NoId

\* What `include: [{ model: File, as: 'file' }]` attaches to a loaded link:
\* File is a paranoid model, so a soft-deleted row is not found.
includedFile(link) ==
    IF link.fileId # NoId /\ files[link.fileId].exists /\ ~files[link.fileId].isDeleted
    THEN link.fileId ELSE NoId

\* What `include: [{ model: Folder, as: 'folder' }]` attaches (paranoid too)
includedFolder(link) ==
    IF link.folderId # NoId /\ folders[link.folderId].exists
       /\ ~folders[link.folderId].isDeleted
    THEN link.folderId ELSE NoId

\* A traversal that would descend into deleted subfolders too
RECURSIVE getAllFilesAnySubfolder(_, _)
getAllFilesAnySubfolder(folderId, depth) ==
    LET own  == {f \in DOMAIN files : files[f].exists /\ files[f].folderId = folderId
                                 /\ ~files[f].isDeleted}
        subs0 == {d \in DOMAIN folders : folders[d].exists /\ folders[d].parentId = folderId}
    IN  IF depth = 0 THEN own
        ELSE own \cup UNION {getAllFilesAnySubfolder(d, depth - 1) : d \in subs0}

\* getAllFiles of GET /:token/zip: the non-deleted files of the folder and,
\* recursively, of its non-deleted subfolders. depth bounds the recursion by
\* the number of folders, which an acyclic tree never exceeds.
RECURSIVE getAllFiles(_, _)
getAllFiles(folderId, depth) ==
    LET own  == {f \in DOMAIN files : files[f].exists /\ files[f].folderId = folderId
                                 /\ ~files[f].isDeleted}
        subs0 == {d \in DOMAIN folders : folders[d].exists /\ folders[d].parentId = folderId
                                   /\ ~folders[d].isDeleted}
    IN  IF depth = 0 THEN own
        ELSE own \cup UNION {getAllFiles(d, depth - 1) : d \in subs0}

\* After the password block: the "Check permissions" block and the recorder
afterPassword(q, t) ==
    CASE q.op = "download" ->
            IF adminDenied(q) THEN Respond(q, "AccessDenied") ELSE recordDownload(q)
      [] q.op = "folder" ->
            IF adminDenied(q) THEN Respond(q, "AccessDenied") ELSE recordAccess(q, t)
      [] OTHER -> [q EXCEPT !.pc = "collect"]

\* A password block that would let a request without ?password= through
passwordGateOpen(q, t) ==
    IF q.link.password # NoPassword /\ q.password # NoPassword
    THEN [q EXCEPT !.pc = "compare"]
    ELSE afterPassword(q, t)

\* The "Check password if required" block up to `await bcrypt.compare`
passwordGate(q, t) ==
    IF q.link.password # NoPassword
    THEN IF q.password = NoPassword
         THEN Respond(q, "PasswordRequired")
         ELSE [q EXCEPT !.pc = "compare"]
    ELSE afterPassword(q, t)

\* GET /:token after findOne
detailsLoaded(q, t) ==
    IF ~q.link.exists THEN Respond(q, "NotFound")
    ELSE IF ~canDownload(q.link, t) THEN Respond(q, "Gone")
    ELSE recordAccess(q, t)

\* GET /:token/download after findOne
downloadLoaded(q, t) ==
    IF ~q.link.exists \/ q.file = NoId THEN Respond(q, "NotFound")
    ELSE IF ~canDownload(q.link, t) THEN Respond(q, "Gone")
    ELSE passwordGate(q, t)

\* GET /:token/folder after findOne
folderLoaded(q, t) ==
    IF ~q.link.exists \/ q.folder = NoId THEN Respond(q, "NotFound")
    ELSE IF ~canDownload(q.link, t) THEN Respond(q, "Gone")
    ELSE passwordGate(q, t)

\* GET /:token/zip after findOne
zipLoaded(q, t) ==
    IF ~q.link.exists \/ q.folder = NoId THEN Respond(q, "NotFound")
    ELSE IF zipTierDenied(q) THEN Respond(q, "InsufficientPermissions")
    ELSE passwordGate(q, t)

\* The handler of route op from the resolution of findOne to its next await
loaded(q, t) ==
    CASE q.op = "details"  -> detailsLoaded(q, t)
      [] q.op = "download" -> downloadLoaded(q, t)
      [] q.op = "folder"   -> folderLoaded(q, t)
      [] OTHER             -> zipLoaded(q, t)

---------------------------------------------------------------------------
(* Actions of the share-link routes *)

FreeLinks == {l \in DOMAIN links : ~links[l].exists /\ ~links[l].destroyed}
IdleSlots == {r \in DOMAIN reqs : reqs[r].pc = "idle"}
Least(S)  == CHOOSE x \in S : \A y \in S : x <= y

\* A creation that would store no target
createShareLinkNoTarget(u, fileId, folderId, expiresAt, password, maxDownloads, permissions) ==
    [NoLink EXCEPT !.exists = TRUE, !.userId = u, !.expiresAt = expiresAt,
                   !.password = password, !.maxDownloads = maxDownloads,
                   !.permissions = IF permissions = "" THEN DefaultPermissions
                                   ELSE permissions]

\* ShareLink.create of POST /files/:id/share and POST /folders/:id/share:
\* the body fields are stored as sent; permissions defaults to 'read'.
createShareLink(u, fileId, folderId, expiresAt, password, maxDownloads, permissions) ==
    [NoLink EXCEPT !.exists = TRUE, !.userId = u, !.fileId = fileId,
                   !.folderId = folderId, !.expiresAt = expiresAt,
                   !.password = password, !.maxDownloads = maxDownloads,
                   !.permissions = IF permissions = "" THEN DefaultPermissions
                                   ELSE permissions]

\* A lookup that would not test the owner
ownFileAnyUser(u, f) == files[f].exists /\ ~files[f].isDeleted

\* File.findOne({ where: { id, userId: req.user.id, isDeleted: false } })
ownFile(u, f) == files[f].exists /\ files[f].userId = u /\ ~files[f].isDeleted

\* Folder.findOne({ where: { id, userId: req.user.id, isDeleted: false } })
ownFolder(u, d) == folders[d].exists /\ folders[d].userId = u /\ ~folders[d].isDeleted

\* POST /files/:id/share
ShareFile ==
    \E u \in Users, f \in DOMAIN files, e \in ExpiresAtInputs, p \in SharePasswordInputs,
       m \in MaxDownloadsInputs, perm \in Permissions \cup {""} :
        /\ FreeLinks # {}
        /\ ownFile(u, f)
        /\ links' = [links EXCEPT ![Least(FreeLinks)] =
                        createShareLink(u, f, NoId, e, p, m, perm)]
        /\ UNCHANGED <<now, files, folders, reqs>>
        /\ UNCHANGED <<temp, users, subs, ups, disk>>

\* POST /folders/:id/share
ShareFolder ==
    \E u \in Users, d \in DOMAIN folders, e \in ExpiresAtInputs, p \in SharePasswordInputs,
       m \in MaxDownloadsInputs, perm \in Permissions \cup {""} :
        /\ FreeLinks # {}
        /\ ownFolder(u, d)
        /\ links' = [links EXCEPT ![Least(FreeLinks)] =
                        createShareLink(u, NoId, d, e, p, m, perm)]
        /\ UNCHANGED <<now, files, folders, reqs>>
        /\ UNCHANGED <<temp, users, subs, ups, disk>>

\* Revocation of a link (active flag -> false)
RevokeLink ==
    \E l \in DOMAIN links :
        /\ links[l].exists /\ links[l].isActive
        /\ links' = [links EXCEPT ![l].isActive = FALSE]
        /\ UNCHANGED <<now, files, folders, reqs>>
        /\ UNCHANGED <<temp, users, subs, ups, disk>>

\* Time passes
Tick ==
    /\ now < MaxTime
    /\ now' = now + 1
    /\ UNCHANGED <<links, files, folders, reqs>>
    /\ UNCHANGED <<temp, users, subs, ups, disk>>

\* Tokens are 32 random bytes: a requester can send the token of a link only
\* once the link has been created (and still after it has been destroyed).
KnownTokens == {l \in DOMAIN links : links[l].exists \/ links[l].destroyed}

\* A request arrives and passes through the route's middleware
Begin ==
    \E op \in Ops, tok \in KnownTokens, pw \in QueryPasswordInputs, user \in Requesters :
        /\ IdleSlots # {}
        \* GET /:token has no auth middleware and reads no query: the handler
        \* sees neither a requester nor a password. passport answers a request
        \* without JWT before any handler reads its query.
        /\ op = "details" => (pw = NoPassword /\ user = Anonymous)
        /\ user = Anonymous => pw = NoPassword
        /\ LET q == [IdleReq EXCEPT !.op = op, !.token = tok, !.password = pw,
                                    !.user = user, !.pc = "find"]
           IN  reqs' = [reqs EXCEPT ![Least(IdleSlots)] =
                           IF usesOptionalAuth(op) /\ ~optionalAuthPasses(user)
                           THEN Respond(q, "Unauthorized") ELSE q]
        /\ UNCHANGED <<now, links, files, folders>>
        /\ UNCHANGED <<temp, users, subs, ups, disk>>

\* ShareLink.findOne resolves and the handler runs to its next await
FindOne ==
    \E r \in DOMAIN reqs :
        /\ reqs[r].pc = "find"
        /\ LET q    == reqs[r]
               row  == IF q.token \in DOMAIN links THEN links[q.token] ELSE NoLink
               inst == [q EXCEPT
                          !.link = IF row.exists THEN row ELSE NoLink,
                          !.file = IF row.exists /\ q.op \in {"details", "download"}
                                   THEN includedFile(row) ELSE NoId,
                          !.folder = IF row.exists /\ q.op \in {"details", "folder", "zip"}
                                     THEN includedFolder(row) ELSE NoId,
                          \* for the record: the link had expired when loaded
                          !.late = row.exists /\ row.expiresAt # NoDate
                                   /\ now > row.expiresAt]
           IN  reqs' = [reqs EXCEPT ![r] = loaded(inst, now)]
        /\ UNCHANGED <<now, links, files, folders>>
        /\ UNCHANGED <<temp, users, subs, ups, disk>>

\* bcrypt.compare resolves and the handler runs to its next await
CompareDone ==
    \E r \in DOMAIN reqs :
        /\ reqs[r].pc = "compare"
        /\ LET q == reqs[r]
           IN  reqs' = [reqs EXCEPT ![r] =
                           IF ~BcryptCompare(q.password, q.link.password)
                           THEN Respond(q, "PasswordInvalid")
                           ELSE afterPassword(q, now)]
        /\ UNCHANGED <<now, links, files, folders>>
        /\ UNCHANGED <<temp, users, subs, ups, disk>>

\* `allFiles.length === 0` of the ZIP route
emptyArchiveNever(allFiles) == FALSE

emptyArchive(allFiles) == allFiles = {}

\* createZip writes uploads/temp/<folder name>_shared.zip: the path is a
\* function of the shared folder
zipPath(folderId) == folderId

\* getAllFiles of the ZIP route resolves
Collect ==
    \E r \in DOMAIN reqs :
        /\ reqs[r].pc = "collect"
        /\ LET q    == reqs[r]
               list == getAllFiles(q.folder, Cardinality(DOMAIN folders))
           IN  reqs' = [reqs EXCEPT ![r] =
                           IF emptyArchive(list)
                           THEN Respond([q EXCEPT !.allFiles = list], "EmptyFolder")
                           ELSE [q EXCEPT !.allFiles = list, !.pc = "zip"]]
        /\ UNCHANGED <<now, links, files, folders>>
        /\ UNCHANGED <<temp, users, subs, ups, disk>>

\* fileService.createZip resolves: the archive is on disk; the ZIP route goes
\* on to recordDownload
ZipDone ==
    \E r \in DOMAIN reqs :
        /\ reqs[r].pc = "zip"
        /\ temp' = temp \cup {zipPath(reqs[r].folder)}
        /\ reqs' = [reqs EXCEPT ![r] = recordDownload(reqs[r])]
        /\ UNCHANGED <<now, links, files, folders>>
        /\ UNCHANGED <<users, subs, ups, disk>>

\* fs.createReadStream(zipPath).pipe(res) of the ZIP route. The read stream
\* emits 'end' when the whole archive has been read, and only the 'end'
\* listener unlinks the archive; a read error or a client that closes the
\* connection ends the request with no listener run.
ZipStream ==
    \E r \in DOMAIN reqs :
        /\ reqs[r].pc = "pipe"
        /\ LET q == reqs[r]
           IN  \/ /\ zipPath(q.folder) \in temp
                  /\ temp' = temp \ {zipPath(q.folder)}
                  /\ reqs' = [reqs EXCEPT ![r] = Respond(q, "Served")]
               \/ /\ temp' = temp
                  /\ reqs' = [reqs EXCEPT ![r] = Respond(q, "Aborted")]
        /\ UNCHANGED <<now, links, files, folders>>
        /\ UNCHANGED <<users, subs, ups, disk>>

\* The UPDATE of instance.save(): the changed columns are written with the
\* values of the instance; then the handler runs to its next await.
saveRow(row, q) ==
    IF ~row.exists THEN row
    ELSE IF q.op \in {"download", "zip"}
         THEN [row EXCEPT !.downloadCount = q.link.downloadCount]
         ELSE [row EXCEPT !.accessCount = q.link.accessCount,
                          !.lastAccessed = q.link.lastAccessed]

afterSave(q) ==
    CASE q.op = "download" -> [q EXCEPT !.pc = "stream"]
      [] q.op = "zip" -> [q EXCEPT !.pc = "pipe"]
      [] q.op = "details" ->
            IF q.file = NoId /\ q.folder = NoId
            THEN Respond(q, "ServerError")     \* resource is null: resource.id throws
            ELSE Respond(q, "Served")
      [] OTHER -> Respond(q, "Served")

Save ==
    \E r \in DOMAIN reqs :
        /\ reqs[r].pc = "save"
        /\ links' = [l \in DOMAIN links |->
                        IF l = reqs[r].token THEN saveRow(links[l], reqs[r])
                        ELSE links[l]]
        /\ reqs' = [reqs EXCEPT ![r] = afterSave(reqs[r])]
        /\ UNCHANGED <<now, files, folders>>
        /\ UNCHANGED <<temp, users, subs, ups, disk>>

\* fileService.getFileStream of the download route: File.findByPk, then the
\* stream is piped into the response.
Stream ==
    \E r \in DOMAIN reqs :
        /\ reqs[r].pc = "stream"
        /\ LET q  == reqs[r]
               ok == files[q.file].exists /\ ~files[q.file].isDeleted
           IN  reqs' = [reqs EXCEPT ![r] =
                           Respond(q, IF ok THEN "Served" ELSE "ServerError")]
        /\ UNCHANGED <<now, links, files, folders>>
        /\ UNCHANGED <<temp, users, subs, ups, disk>>

\* DELETE /shares/:id arrives and passes through optionalAuth and the
\* `if (!req.user)` test; the handler then awaits findOne
SendDelete ==
    \E user \in Requesters, l \in KnownTokens :
        /\ IdleSlots # {}
        /\ LET q == [IdleReq EXCEPT !.op = "delete", !.token = l, !.user = user,
                                    !.pc = "findOwn"]
           IN  reqs' = [reqs EXCEPT ![Least(IdleSlots)] =
                           IF ~optionalAuthPasses(user)
                           THEN Respond(q, "Unauthorized") ELSE q]
        /\ UNCHANGED <<now, links, files, folders>>
        /\ UNCHANGED <<temp, users, subs, ups, disk>>

\* ShareLink.findOne({ where: { id, userId: req.user.id } }) of DELETE /:id
\* resolves
DeleteFind ==
    \E r \in DOMAIN reqs :
        /\ reqs[r].pc = "findOwn"
        /\ LET q   == reqs[r]
               row == links[q.token]
           IN  reqs' = [reqs EXCEPT ![r] =
                           IF row.exists /\ row.userId = q.user
                           THEN [q EXCEPT !.link = row, !.pc = "destroy"]
                           ELSE Respond(q, "NotFound")]
        /\ UNCHANGED <<now, links, files, folders>>
        /\ UNCHANGED <<temp, users, subs, ups, disk>>

\* shareLink.destroy() resolves: the row is deleted from the table (the
\* record keeps its last values, which nothing reads once exists is false)
Destroy ==
    \E r \in DOMAIN reqs :
        /\ reqs[r].pc = "destroy"
        /\ links' = [links EXCEPT ![reqs[r].token].exists = FALSE,
                                  ![reqs[r].token].destroyed = TRUE]
        /\ reqs' = [reqs EXCEPT ![r] = Respond(reqs[r], "Deleted")]
        /\ UNCHANGED <<now, files, folders>>
        /\ UNCHANGED <<temp, users, subs, ups, disk>>

---------------------------------------------------------------------------
(* Storage quota and uploads *)

\* Sizes and limits are counted in an abstract unit: the limits keep the
\* order of the byte values of the source, not their ratio.
DefaultStorageLimit == 2      \* User.storageLimit default (1 GB)
PremiumStorageLimit == 3      \* price_premium_monthly (100 GB)
EnterpriseStorageLimit == 4   \* price_enterprise_monthly (1 TB)

PriceIds == {"price_premium_monthly", "price_other"}
FileSizes == {1, 2}
\* files in one request: POST /upload carries 1, POST /upload-multiple several
BatchSizes == {1, 2}
Max(S) == CHOOSE x \in S : \A y \in S : x >= y
\* what an admin can send as storageLimit in PUT /admin/users/:id
AdminLimitInputs == {0, 3}

InitUsers == [u \in Users |-> [storageLimit |-> DefaultStorageLimit]]

\* PaymentService.getStorageLimitFromPriceId
getStorageLimitFromPriceId(priceId) ==
    CASE priceId = "price_premium_monthly"    -> PremiumStorageLimit
      [] priceId = "price_enterprise_monthly" -> EnterpriseStorageLimit
      [] OTHER                                -> DefaultStorageLimit

NoFile ==
    [exists |-> FALSE, userId |-> NoId, folderId |-> NoId, size |-> 0,
     isDeleted |-> FALSE, path |-> <<0, 0>>]

RECURSIVE SumSizes(_)
SumSizes(S) ==
    IF S = {} THEN 0
    ELSE LET f == CHOOSE x \in S : TRUE IN files[f].size + SumSizes(S \ {f})

\* FileService.getStorageUsage: File.sum('size', { where: { userId,
\* isDeleted: false } }) || 0
getStorageUsage(userId) ==
    SumSizes({f \in DOMAIN files : files[f].exists /\ files[f].userId = userId
                                   /\ ~files[f].isDeleted})

\* `user.subscription?.storageLimit || user.storageLimit`, on the user row and
\* the subscription row (hasSub: a row was included) that findByPk returned
effectiveLimit(userLimit, hasSub, subLimit) ==
    IF hasSub /\ subLimit # 0 THEN subLimit ELSE userLimit

\* A comparison that would also refuse a file filling the limit exactly
limitExceededAtLimit(currentUsage, fileSize, limit) ==
    currentUsage + fileSize >= limit

\* The comparison of FileService.validateFileSize: TRUE when it throws
\* 'Storage limit exceeded'
limitExceeded(currentUsage, fileSize, limit) == currentUsage + fileSize > limit

IdleUpload ==
    [pc |-> "idle", user |-> "u1", folderId |-> NoId, sizes |-> <<>>, i |-> 1,
     userLimit |-> 0, hasSub |-> FALSE, subLimit |-> 0,
     usage |-> 0, result |-> "none"]

IdleUploads == {k \in DOMAIN ups : ups[k].pc = "idle"}

\* What a client can send as `folderId` in the body of an upload: nothing,
\* or the id of any folder row, present or not
FolderIdInputs == {NoId} \cup DOMAIN folders

\* The foreign key of File.folderId (File.belongsTo(Folder)): an INSERT
\* naming a folder row that does not exist is rejected by the database
folderKeyHolds(folderId) == folderId = NoId \/ folders[folderId].exists

\* POST /upload (one file) and POST /upload-multiple (several): the multer
\* middleware stores every file of the request before the handler runs.
Multer ==
    \E u \in Users, n \in BatchSizes, folderId \in FolderIdInputs :
    \E sizes \in [1 .. n -> FileSizes] :
        /\ IdleUploads # {}
        /\ LET k == Least(IdleUploads)
           IN  /\ ups' = [ups EXCEPT ![k] =
                             [IdleUpload EXCEPT !.pc = "findUser", !.user = u,
                                                !.folderId = folderId,
                                                !.sizes = sizes]]
               /\ disk' = disk \cup {<<k, j>> : j \in 1 .. n}
        /\ UNCHANGED <<files, folders, users, subs>>
        /\ UNCHANGED shareVars

\* validateFileSize: User.findByPk with the subscription included. With
\* several subscription rows, hasOne attaches one of them.
ReadUser ==
    \E k \in DOMAIN ups :
        /\ ups[k].pc = "findUser"
        /\ LET u == ups[k].user
           IN  \/ /\ subs[u] = <<>>
                  /\ ups' = [ups EXCEPT ![k].pc = "sum",
                                        ![k].userLimit = users[u].storageLimit,
                                        ![k].hasSub = FALSE,
                                        ![k].subLimit = 0]
               \/ \E n \in DOMAIN subs[u] :
                     ups' = [ups EXCEPT ![k].pc = "sum",
                                        ![k].userLimit = users[u].storageLimit,
                                        ![k].hasSub = TRUE,
                                        ![k].subLimit = subs[u][n].storageLimit]
        /\ UNCHANGED <<files, folders, users, subs, disk>>
        /\ UNCHANGED shareVars

\* validateFileSize: getStorageUsage resolves and the limit is compared
Validate ==
    \E k \in DOMAIN ups :
        /\ ups[k].pc = "sum"
        /\ LET q     == ups[k]
               usage == getStorageUsage(q.user)
               limit == effectiveLimit(q.userLimit, q.hasSub, q.subLimit)
           IN  ups' = [ups EXCEPT ![k].usage = usage,
                                  ![k].pc = IF limitExceeded(usage, q.sizes[q.i], limit)
                                            THEN "done" ELSE "create",
                                  ![k].result =
                                      IF limitExceeded(usage, q.sizes[q.i], limit)
                                      THEN "StorageLimitExceeded" ELSE "none"]
        /\ UNCHANGED <<files, folders, users, subs, disk>>
        /\ UNCHANGED shareVars

\* FileService.saveFile: File.create with the folderId of the request body
\* as it came; the loop of upload-multiple goes on to its next file. A
\* rejected INSERT throws out of the handler.
SaveFile ==
    \E k \in DOMAIN ups :
        /\ ups[k].pc = "create"
        /\ LET q == ups[k]
               \* the locals of validateFileSize are gone
               c == [q EXCEPT !.userLimit = 0, !.hasSub = FALSE,
                              !.subLimit = 0, !.usage = 0]
           IN  IF folderKeyHolds(q.folderId)
               THEN /\ files' = [files EXCEPT ![<<k, q.i>>] =
                                   [NoFile EXCEPT !.exists = TRUE, !.userId = q.user,
                                                  !.folderId = q.folderId,
                                                  !.size = q.sizes[q.i],
                                                  !.path = <<k, q.i>>]]
                    /\ ups' = [ups EXCEPT ![k] =
                                  IF q.i < Len(q.sizes)
                                  THEN [c EXCEPT !.i = q.i + 1, !.pc = "findUser"]
                                  ELSE [c EXCEPT !.pc = "done", !.result = "Created"]]
               ELSE /\ files' = files
                    /\ ups' = [ups EXCEPT ![k] =
                                  [c EXCEPT !.pc = "done", !.result = "ServerError"]]
        /\ UNCHANGED <<folders, users, subs, disk>>
        /\ UNCHANGED shareVars

\* FileService.deleteFile (DELETE /files/:id): soft delete by the owner
DeleteFile ==
    \E u \in Users, f \in DOMAIN files :
        /\ files[f].exists /\ ~files[f].isDeleted /\ files[f].userId = u
        /\ files' = [files EXCEPT ![f].isDeleted = TRUE]
        /\ UNCHANGED <<folders, users, subs, ups, disk>>
        /\ UNCHANGED shareVars

\* DELETE /folders/:id: soft delete of the folder row by its owner; the
\* folder's files and subfolders are left as they are.
DeleteFolder ==
    \E u \in Users, d \in DOMAIN folders :
        /\ folders[d].exists /\ ~folders[d].isDeleted /\ folders[d].userId = u
        /\ folders' = [folders EXCEPT ![d].isDeleted = TRUE]
        /\ UNCHANGED <<files, users, subs, ups, disk>>
        /\ UNCHANGED shareVars

\* A call of POST /payments/subscribe, held in the request table
IdleCall ==
    [pc |-> "idle", op |-> "subscribe", user |-> "u1",
     priceId |-> "price_other", result |-> "none"]

\* `Subscription.findOne({ where: { userId, status: 'active' } })` finds a row
hasActiveSubscription(u) ==
    \E n \in DOMAIN subs[u] : subs[u][n].status = "active"

\* PaymentService.createSubscription up to the call of Stripe: the user is
\* read, and a user with an active subscription is refused.
Subscribe ==
    \E u \in Users, priceId \in PriceIds :
        /\ IdleSlots # {}
        /\ LET c == [IdleCall EXCEPT !.user = u, !.priceId = priceId]
           IN  reqs' = [reqs EXCEPT ![Least(IdleSlots)] =
                           IF hasActiveSubscription(u)
                           THEN [c EXCEPT !.pc = "done", !.result = "AlreadySubscribed"]
                           ELSE [c EXCEPT !.pc = "stripe"]]
        /\ UNCHANGED <<files, folders, users, subs, ups, disk>>
        /\ UNCHANGED <<now, links, temp>>

\* PaymentService.createSubscription from the resolution of
\* stripe.subscriptions.create: Subscription.create inserts the row.
CreateSubscription ==
    \E r \in DOMAIN reqs :
        /\ reqs[r].pc = "stripe"
        /\ subs' = [subs EXCEPT ![reqs[r].user] = Append(@,
                        [status |-> "active",
                         storageLimit |-> getStorageLimitFromPriceId(reqs[r].priceId)])]
        /\ reqs' = [reqs EXCEPT ![r].pc = "done", ![r].result = "Created"]
        /\ UNCHANGED <<files, folders, users, ups, disk>>
        /\ UNCHANGED <<now, links, temp>>

\* handleSubscriptionDeleted of the Stripe webhook: the row of the deleted
\* subscription becomes 'canceled'
SubscriptionDeleted ==
    \E u \in Users :
    \E n \in DOMAIN subs[u] :
        /\ subs[u][n].status = "active"
        /\ subs' = [subs EXCEPT ![u][n].status = "canceled"]
        /\ UNCHANGED <<files, folders, users, ups, disk>>
        /\ UNCHANGED shareVars

\* PUT /api/admin/users/:id: `if (storageLimit) user.storageLimit = storageLimit`
AdminUpdateUser ==
    \E u \in Users, v \in AdminLimitInputs :
        /\ users' = [users EXCEPT ![u].storageLimit = IF v # 0 THEN v ELSE @]
        /\ users' # users
        /\ UNCHANGED <<files, folders, subs, ups, disk>>
        /\ UNCHANGED shareVars

UploadFileIds == (1 .. MaxUploads) \X (1 .. Max(BatchSizes))

InitUpload ==
    /\ now = 0
    /\ links = [l \in {} |-> NoLink]
    /\ files = [f \in UploadFileIds |-> NoFile]
    /\ folders = [d \in {} |-> NoFile]
    /\ reqs = [r \in 1 .. MaxSubscribes |-> IdleCall]
    /\ users = InitUsers
    /\ subs = [u \in Users |-> <<>>]
    /\ ups = [k \in 1 .. MaxUploads |-> IdleUpload]
    /\ disk = {}
    /\ temp = {}

NextUpload ==
    \/ Multer
    \/ ReadUser
    \/ Validate
    \/ SaveFile
    \/ DeleteFile
    \/ Subscribe
    \/ CreateSubscription
    \/ AdminUpdateUser

SpecUpload == InitUpload /\ [][NextUpload]_vars

---------------------------------------------------------------------------
(* The share-link specification *)

\* u1 has uploaded f1 into its folder d1; no link has been created yet.
InitFiles   == [f \in FileIds |->
                  [exists |-> TRUE, userId |-> "u1", folderId |-> "d1",
                   size |-> 1, isDeleted |-> FALSE, path |-> <<0, 1>>]]
InitFolders == [d \in FolderIds |->
                  [exists |-> TRUE, userId |-> "u1", parentId |-> NoId,
                   isDeleted |-> FALSE]]

Init ==
    /\ now = 0
    /\ links = [l \in LinkIds |-> NoLink]
    /\ files = InitFiles
    /\ folders = InitFolders
    /\ reqs = [r \in ReqIds |-> IdleReq]
    /\ users = InitUsers
    /\ subs = [u \in Users |-> <<>>]
    /\ ups = [k \in {} |-> IdleUpload]
    /\ disk = {<<0, 1>>}
    /\ temp = {}

Next ==
    \/ ShareFile
    \/ ShareFolder
    \/ RevokeLink
    \/ Tick
    \/ Begin
    \/ FindOne
    \/ CompareDone
    \/ Collect
    \/ ZipDone
    \/ Save
    \/ Stream
    \/ ZipStream

Spec == Init /\ [][Next]_vars

---------------------------------------------------------------------------
(* Properties of the share-link routes *)

Done(r)   == reqs[r].pc = "done"
Served(r) == Done(r) /\ reqs[r].result = "Served"

\* The requests answered after the handler reached its password block
PastGates(q) ==
    q.result \in {"PasswordRequired", "PasswordInvalid", "AccessDenied",
                  "EmptyFolder", "ServerError", "Aborted", "Served"}

C3_PasswordGate ==
    \A r \in DOMAIN reqs :
        LET q == reqs[r] IN
        (Done(r) /\ q.op \in {"download", "folder", "zip"} /\ PastGates(q)
                 /\ q.link.password # NoPassword) =>
            /\ q.password = NoPassword => q.result = "PasswordRequired"
            /\ q.password \notin {NoPassword, q.link.password}
                   => q.result = "PasswordInvalid"
            /\ q.password = q.link.password
                   => q.result \notin {"PasswordRequired", "PasswordInvalid"}

OpenReadLink(link) ==
    /\ link.exists /\ link.isActive
    /\ link.password = NoPassword /\ link.expiresAt = NoDate
    /\ link.maxDownloads = Unlimited /\ link.permissions = "read"

\* C6: a read operation (download of a shared file, listing of a shared
\* folder) on such a link is served to any requester, an anonymous one
\* included.
C6_AnonymousReadIsServed ==
    \A r \in DOMAIN reqs :
        LET q == reqs[r] IN
        (Done(r) /\ q.user = Anonymous /\ OpenReadLink(links[q.token])
            /\ \/ q.op = "download" /\ includedFile(links[q.token]) # NoId
               \/ q.op = "folder" /\ includedFolder(links[q.token]) # NoId) =>
            q.result = "Served"

---------------------------------------------------------------------------
(* Properties of the quota check and the upload routes *)

\* The limit the quota check is to use: the subscription's storageLimit when
\* the user has a subscription row, else the account's storageLimit
QuotaLimit(q) == IF q.hasSub THEN q.subLimit ELSE q.userLimit

Decided(q) ==
    q.pc = "create" \/ (q.pc = "done" /\ q.result = "StorageLimitExceeded")

\* C7: validateFileSize refuses exactly when currentUsage + bytes > limit,
\* with the subscription's limit when a subscription row exists and the
\* account's limit otherwise; currentUsage + bytes = limit is accepted.
C7_DeniesIffOverLimit ==
    \A k \in DOMAIN ups :
        LET q == ups[k] IN
        Decided(q) =>
            ((q.result = "StorageLimitExceeded")
                <=> (q.usage + q.sizes[q.i] > QuotaLimit(q)))

\* A file that fills the subscription's limit exactly is accepted, after an
\* earlier file of the same user.
C7_Witness ==
    \E k \in DOMAIN ups :
        LET q == ups[k] IN
        /\ q.pc = "create" /\ q.hasSub /\ q.usage > 0
        /\ q.subLimit # q.userLimit
        /\ q.usage + q.sizes[q.i] = q.subLimit

\* The quota check has accepted file j of upload request k
QuotaPassed(k, j) ==
    LET q == ups[k] IN
    \/ q.i > j
    \/ q.i = j /\ q.pc = "create"
    \/ q.pc = "done" /\ q.result = "Created"

\* C8: no byte of an uploaded file is stored before the quota check has
\* accepted the file, and once the check has refused a request no byte and no
\* File row of the refused file remain.
C8_QuotaBeforeBytes ==
    \A k \in DOMAIN ups :
        \A j \in DOMAIN ups[k].sizes :
            (<<k, j>> \in disk \/ files[<<k, j>>].exists) => QuotaPassed(k, j)

---------------------------------------------------------------------------
(* The access recorder: views and downloads of one open file link *)

AccessRequests == 3     \* requests sent to the link in one behaviour

\* POST /files/:id/share with neither password nor permissions in the body
ShareOpenFile ==
    /\ ShareFile
    /\ \A l \in DOMAIN links :
          links'[l].password = NoPassword /\ links'[l].permissions = "read"

\* GET /:token, or GET /:token/download with the JWT of u1
SendViewOrDownload ==
    /\ Begin
    /\ \A r \in DOMAIN reqs :
          /\ reqs'[r].op \in {"details", "download"}
          /\ reqs'[r].user \in {Anonymous, "u1"}
          /\ reqs'[r].password = NoPassword
          /\ reqs'[r].result # "Unauthorized"

InitAccess ==
    /\ now = 0
    /\ links = [l \in 1 .. 1 |-> NoLink]
    /\ files = InitFiles
    /\ folders = InitFolders
    /\ reqs = [r \in 1 .. AccessRequests |-> IdleReq]
    /\ users = InitUsers
    /\ subs = [u \in Users |-> <<>>]
    /\ ups = [k \in {} |-> IdleUpload]
    /\ disk = {<<0, 1>>}
    /\ temp = {}

NextAccess ==
    \/ ShareOpenFile
    \/ Tick
    \/ SendViewOrDownload
    \/ FindOne
    \/ Save
    \/ Stream

SpecAccess == InitAccess /\ [][NextAccess]_vars

\* C11: a GET /:token request changes no persisted field of any link: the
\* ShareLinks table is the same when the request is answered as it was before
\* the handler's last step.
C11_DetailsMutatesNothing ==
    [][\A r \in DOMAIN reqs :
          (reqs[r].op = "details" /\ reqs[r].pc # "idle" /\ reqs[r].pc # "done"
              /\ reqs'[r].pc = "done") => links' = links]_vars

\* The link a request loaded was active and not expired, and its target was
\* found, but its downloads were used up
QuotaUsedUp(q) ==
    /\ q.link.exists /\ q.link.isActive /\ ~q.late
    /\ q.file # NoId \/ q.folder # NoId
    /\ q.link.maxDownloads # Unlimited
    /\ q.link.downloadCount >= q.link.maxDownloads

\* C12: the download quota is not applied to the view operations: a details
\* or listing request that loads an active, unexpired link whose downloadCount
\* has reached maxDownloads is still served.
C12_ViewsIgnoreDownloadQuota ==
    \A r \in DOMAIN reqs :
        (Done(r) /\ reqs[r].op \in {"details", "folder"} /\ QuotaUsedUp(reqs[r])
            /\ reqs[r].link.password = NoPassword
            /\ reqs[r].link.permissions # "admin") =>
            reqs[r].result = "Served"

\* The reasons of a denial, and the check that failed for a denied request
\* (read off the link as the request loaded it, in the order of canDownload)
DenialResults ==
    {"Gone", "PasswordRequired", "PasswordInvalid", "AccessDenied",
     "InsufficientPermissions"}

FailedCheck(q) ==
    IF q.result = "Gone"
    THEN IF ~q.link.isActive THEN "Revoked"
         ELSE IF q.late THEN "Expired"
         ELSE "QuotaExhausted"
    ELSE IF q.result = "AccessDenied" THEN "InsufficientPermissions"
    ELSE q.result

\* C16: the response of a denied request tells which check failed: two
\* requests denied by different checks never get the same response.
C16_DenialsAreDistinguishable ==
    \A r1, r2 \in DOMAIN reqs :
        (/\ Done(r1) /\ reqs[r1].result \in DenialResults
         /\ Done(r2) /\ reqs[r2].result \in DenialResults
         /\ FailedCheck(reqs[r1]) # FailedCheck(reqs[r2])) =>
            reqs[r1].result # reqs[r2].result

\* C20: the persisted accessCount of a link never decreases.
C20_AccessCountNeverDecreases ==
    [][\A l \in DOMAIN links :
          (links[l].exists /\ links'[l].exists) =>
              links'[l].accessCount >= links[l].accessCount]_vars

---------------------------------------------------------------------------
(* Folder ZIP downloads over a folder tree *)

ZipRequests == 1        \* ZIP requests sent in one behaviour

\* u1's tree: d1 holds f1 and d2, d2 holds f2 and d3, d3 holds f3
TreeParent == [d1 |-> NoId, d2 |-> "d1", d3 |-> "d2"]
TreeFolderOf == [f1 |-> "d1", f2 |-> "d2", f3 |-> "d3"]

\* POST /folders/:id/share with permissions write and nothing else
ShareWritableFolder ==
    /\ ShareFolder
    /\ \A l \in DOMAIN links :
          links'[l].exists =>
              /\ links'[l].permissions = "write"
              /\ links'[l].password = NoPassword
              /\ links'[l].expiresAt = NoDate
              /\ links'[l].maxDownloads = Unlimited

\* GET /:token/zip with the JWT of u1
SendZip ==
    /\ Begin
    /\ \A r \in DOMAIN reqs :
          reqs'[r].pc # "idle" =>
              /\ reqs'[r].op = "zip"
              /\ reqs'[r].user = "u1"
              /\ reqs'[r].password = NoPassword

InitZip ==
    /\ now = 0
    /\ links = [l \in 1 .. 1 |-> NoLink]
    /\ files = [f \in DOMAIN TreeFolderOf |->
                  [exists |-> TRUE, userId |-> "u1", folderId |-> TreeFolderOf[f],
                   size |-> 1, isDeleted |-> FALSE, path |-> <<0, 1>>]]
    /\ folders = [d \in DOMAIN TreeParent |->
                  [exists |-> TRUE, userId |-> "u1", parentId |-> TreeParent[d],
                   isDeleted |-> FALSE]]
    /\ reqs = [r \in 1 .. ZipRequests |-> IdleReq]
    /\ users = InitUsers
    /\ subs = [u \in Users |-> <<>>]
    /\ ups = [k \in {} |-> IdleUpload]
    /\ disk = {<<0, 1>>}
    /\ temp = {}

NextZip ==
    \/ ShareWritableFolder
    \/ DeleteFile
    \/ DeleteFolder
    \/ SendZip
    \/ FindOne
    \/ Collect
    \/ ZipDone
    \/ Save
    \/ ZipStream

SpecZip == InitZip /\ [][NextZip]_vars

\* Folder d lies under root through folders that are all not deleted (root
\* itself aside); n bounds the length of the chain
RECURSIVE LiveChain(_, _, _)
LiveChain(d, root, n) ==
    \/ d = root
    \/ /\ n > 0 /\ d \in DOMAIN folders
       /\ folders[d].exists /\ ~folders[d].isDeleted
       /\ folders[d].parentId # NoId
       /\ LiveChain(folders[d].parentId, root, n - 1)

\* The files a ZIP of root is to hold
EligibleFiles(root) ==
    {f \in DOMAIN files :
        /\ files[f].exists /\ ~files[f].isDeleted
        /\ LiveChain(files[f].folderId, root, Cardinality(DOMAIN folders))}

C14_EmptyTreeNoArchive ==
    [][\A r \in DOMAIN reqs :
          (reqs[r].pc = "collect" /\ reqs'[r].pc # "collect") =>
              /\ (EligibleFiles(reqs[r].folder) = {})
                     <=> (reqs'[r].pc = "done" /\ reqs'[r].result = "EmptyFolder")
              /\ reqs'[r].result = "EmptyFolder" =>
                     (temp' = temp /\ links' = links)]_vars

\* A ZIP request was answered empty-folder on a tree whose files are all
\* deleted, with no archive on disk and no download counted.
C14_Witness ==
    \E r \in DOMAIN reqs :
        /\ Done(r) /\ reqs[r].result = "EmptyFolder"
        /\ \E f \in DOMAIN files : files[f].isDeleted
        /\ temp = {}
        /\ links[reqs[r].token].downloadCount = 0

---------------------------------------------------------------------------
(* Creation and deletion of links by two users *)

ManageLinks    == 1     \* links created in one behaviour
ManageRequests == 1     \* requests sent in one behaviour
DeleteRequests == 2     \* requests sent in one behaviour of SpecDelete

\* POST /files/:id/share and POST /folders/:id/share with an empty body
SharePlainFile ==
    /\ ShareFile
    /\ \A l \in DOMAIN links :
          /\ links'[l].password = NoPassword /\ links'[l].expiresAt = NoDate
          /\ links'[l].maxDownloads = Unlimited /\ links'[l].permissions = "read"

SharePlainFolder ==
    /\ ShareFolder
    /\ \A l \in DOMAIN links :
          /\ links'[l].password = NoPassword /\ links'[l].expiresAt = NoDate
          /\ links'[l].maxDownloads = Unlimited /\ links'[l].permissions = "read"

\* A token request without ?password=
SendPlain ==
    /\ Begin
    /\ \A r \in DOMAIN reqs : reqs'[r].password = NoPassword

\* u1 owns f1 in its folder d1; u2 owns f2; n requests can be sent
ManageTables(n) ==
    /\ now = 0
    /\ links = [l \in 1 .. ManageLinks |-> NoLink]
    /\ files = [f \in {"f1", "f2"} |->
                  [exists |-> TRUE, userId |-> IF f = "f1" THEN "u1" ELSE "u2",
                   folderId |-> IF f = "f1" THEN "d1" ELSE NoId,
                   size |-> 1, isDeleted |-> FALSE, path |-> <<0, 1>>]]
    /\ folders = InitFolders
    /\ reqs = [r \in 1 .. n |-> IdleReq]
    /\ users = InitUsers
    /\ subs = [u \in Users |-> <<>>]
    /\ ups = [k \in {} |-> IdleUpload]
    /\ disk = {<<0, 1>>}
    /\ temp = {}

NextManage ==
    \/ SharePlainFile
    \/ SharePlainFolder
    \/ DeleteFile
    \/ DeleteFolder
    \/ SendPlain
    \/ FindOne
    \/ Save
    \/ Stream
    \/ SendDelete
    \/ DeleteFind
    \/ Destroy

InitManage == ManageTables(ManageRequests)

SpecManage == InitManage /\ [][NextManage]_vars

\* The same routes with a second request, so that a request can follow a
\* deletion
InitDelete == ManageTables(DeleteRequests)

SpecDelete == InitDelete /\ [][NextManage]_vars

\* Request r is a DELETE /shares/:id sent by someone other than the creator
\* of the link it names
ForeignDelete(r) ==
    reqs[r].op = "delete" /\ reqs[r].pc # "idle"
        /\ reqs[r].user # links[reqs[r].token].userId

\* C17: a link's row is removed only by a DELETE of its creator, and then it
\* is gone: every operation sent on its token afterwards is answered
\* not-found. A DELETE by anyone else, authenticated or not, is answered with
\* an error and changes no link.
C17_HardDeleteByCreatorOnly ==
    /\ [][\A l \in DOMAIN links :
            (links[l].exists /\ ~links'[l].exists) =>
                \E r \in DOMAIN reqs :
                    /\ reqs[r].op = "delete" /\ reqs[r].token = l
                    /\ reqs[r].user = links[l].userId
                    /\ reqs'[r].result = "Deleted"]_vars
    /\ [][\A r \in DOMAIN reqs :
            (reqs'[r].result = "Deleted" /\ reqs[r].result # "Deleted") =>
                links'[reqs[r].token].destroyed]_vars
    /\ [](\A r \in DOMAIN reqs :
            (ForeignDelete(r) /\ Done(r)) =>
                reqs[r].result \in {"Unauthorized", "NotFound"})
    /\ [][\A r \in DOMAIN reqs :
            (ForeignDelete(r) /\ reqs'[r] # reqs[r]) => links' = links]_vars
    /\ [][\A r \in DOMAIN reqs :
            (/\ reqs'[r].op \in Ops /\ reqs'[r] # reqs[r]
             /\ reqs[r].pc \in {"idle", "find"}
             /\ links[reqs'[r].token].destroyed) =>
                (reqs'[r].pc = "find" \/ reqs'[r].result = "NotFound")]_vars

\* C18: every link's creator owns the link's target, and a link is created
\* only on a target that exists, belongs to the requester and is not deleted.
C18_CreatorOwnsTarget ==
    /\ [](\A l \in DOMAIN links : links[l].exists =>
            /\ links[l].fileId # NoId =>
                   /\ files[links[l].fileId].exists
                   /\ files[links[l].fileId].userId = links[l].userId
            /\ links[l].folderId # NoId =>
                   /\ folders[links[l].folderId].exists
                   /\ folders[links[l].folderId].userId = links[l].userId)
    /\ [][\A l \in DOMAIN links :
            (~links[l].exists /\ links'[l].exists) =>
                /\ links'[l].fileId # NoId =>
                       /\ files[links'[l].fileId].userId = links'[l].userId
                       /\ ~files[links'[l].fileId].isDeleted
                /\ links'[l].folderId # NoId =>
                       /\ folders[links'[l].folderId].userId = links'[l].userId
                       /\ ~folders[links'[l].folderId].isDeleted]_vars

\* u2 has shared its own file while u1's file, never deleted, has no link.
C18_Witness ==
    \E l \in DOMAIN links :
        /\ links[l].exists /\ links[l].userId = "u2" /\ links[l].fileId = "f2"
        /\ ~files["f1"].isDeleted

\* C19: every link has exactly one of fileId and folderId set.
C19_ExactlyOneTarget ==
    \A l \in DOMAIN links : links[l].exists =>
        ((links[l].fileId = NoId) # (links[l].folderId = NoId))

\* A link has been viewed and its target has then been deleted.
C19_Witness ==
    \E l \in DOMAIN links :
        /\ links[l].exists /\ links[l].accessCount > 0
        /\ \/ links[l].fileId # NoId /\ files[links[l].fileId].isDeleted
           \/ links[l].folderId # NoId /\ folders[links[l].folderId].isDeleted

---------------------------------------------------------------------------
(* One request against one link, with every route and every input *)

GateRequests == 1     \* requests sent in one behaviour

InitGate ==
    /\ now = 0
    /\ links = [l \in LinkIds |-> NoLink]
    /\ files = InitFiles
    /\ folders = InitFolders
    /\ reqs = [r \in 1 .. GateRequests |-> IdleReq]
    /\ users = InitUsers
    /\ subs = [u \in Users |-> <<>>]
    /\ ups = [k \in {} |-> IdleUpload]
    /\ disk = {<<0, 1>>}
    /\ temp = {}

SpecGate == InitGate /\ [][Next]_vars

\* The checks of the evaluation order, on the link as the request loaded it
\* (a request that is answered with a denial has recorded nothing on it)
RevokedOrExpiredOrUsedUp(q) ==
    \/ ~q.link.isActive
    \/ q.late
    \/ q.link.maxDownloads # Unlimited /\ q.link.downloadCount >= q.link.maxDownloads

PasswordFails(q) ==
    q.link.password # NoPassword /\ ~BcryptCompare(q.password, q.link.password)

TierDenials == {"AccessDenied", "InsufficientPermissions"}

\* C24: on the download, folder and ZIP routes the first failing check of
\* the order revoked, expired, quota, password, tier determines the denial:
\* a request denied for its password has passed the state checks, and a
\* request denied for its tier has passed the state checks and the password.
C24_FirstFailingCheckWins ==
    \A r \in DOMAIN reqs :
        (Done(r) /\ reqs[r].op \in {"download", "folder", "zip"}) =>
            /\ reqs[r].result \in {"PasswordRequired", "PasswordInvalid"} \cup TierDenials
                  => ~RevokedOrExpiredOrUsedUp(reqs[r])
            /\ reqs[r].result \in TierDenials => ~PasswordFails(reqs[r])

\* Request q, about to save its counters, has passed every check of its
\* route (src/routes/shares.js, the blocks before recordAccess/recordDownload)
PassedRouteChecks(q) ==
    LET loadedCount == IF q.op = "download" THEN q.link.downloadCount - 1
                       ELSE q.link.downloadCount
    IN  /\ q.link.exists
        /\ q.op = "download" => q.file # NoId
        /\ q.op \in {"folder", "zip"} => q.folder # NoId
        /\ q.op # "zip" =>
              /\ q.link.isActive /\ ~q.late
              /\ q.link.maxDownloads = Unlimited \/ loadedCount < q.link.maxDownloads
        /\ q.op # "details" =>
              q.link.password = NoPassword \/ q.link.password = BcryptHash(q.password)
        /\ q.op \in {"download", "folder"} =>
              (q.link.permissions = "admin" => q.user = q.link.userId)
        /\ q.op = "zip" =>
              /\ q.link.permissions \in {"write", "admin"}
              /\ q.allFiles # {}

Counters(row) == <<row.downloadCount, row.accessCount, row.lastAccessed>>

Denials ==
    {"Unauthorized", "NotFound", "Gone", "PasswordRequired", "PasswordInvalid",
     "AccessDenied", "InsufficientPermissions", "EmptyFolder"}

---------------------------------------------------------------------------
(* Two ZIP requests on one shared tree *)

ConcurrentZips == 2     \* ZIP requests sent in one behaviour

InitZipPair ==
    /\ now = 0
    /\ links = [l \in 1 .. 1 |-> NoLink]
    /\ files = [f \in DOMAIN TreeFolderOf |->
                  [exists |-> TRUE, userId |-> "u1", folderId |-> TreeFolderOf[f],
                   size |-> 1, isDeleted |-> FALSE, path |-> <<0, 1>>]]
    /\ folders = [d \in DOMAIN TreeParent |->
                  [exists |-> TRUE, userId |-> "u1", parentId |-> TreeParent[d],
                   isDeleted |-> FALSE]]
    /\ reqs = [r \in 1 .. ConcurrentZips |-> IdleReq]
    /\ users = InitUsers
    /\ subs = [u \in Users |-> <<>>]
    /\ ups = [k \in {} |-> IdleUpload]
    /\ disk = {<<0, 1>>}
    /\ temp = {}

SpecZipPair == InitZipPair /\ [][NextZip]_vars

\* Request r has had its archive written and has not finished streaming it
HoldsArchive(r) == reqs[r].op = "zip" /\ reqs[r].pc \in {"save", "pipe"}

---------------------------------------------------------------------------
(* Uploads into folders *)

FolderUploads == 1     \* upload requests sent in one behaviour

\* u1 owns folder d1, u2 owns folder d2, and no folder row has the id d3
InitUploadFolder ==
    /\ now = 0
    /\ links = [l \in {} |-> NoLink]
    /\ files = [f \in (1 .. FolderUploads) \X (1 .. Max(BatchSizes)) |-> NoFile]
    /\ folders = [d \in {"d1", "d2", "d3"} |->
                    [exists |-> d # "d3", userId |-> IF d = "d2" THEN "u2" ELSE "u1",
                     parentId |-> NoId, isDeleted |-> FALSE]]
    /\ reqs = [r \in 1 .. MaxSubscribes |-> IdleCall]
    /\ users = InitUsers
    /\ subs = [u \in Users |-> <<>>]
    /\ ups = [k \in 1 .. FolderUploads |-> IdleUpload]
    /\ disk = {}
    /\ temp = {}

SpecUploadFolder == InitUploadFolder /\ [][NextUpload]_vars

\* C27: every file that has a folderId lies in a folder of the file's owner.
C27_FileInOwnFolder ==
    \A f \in DOMAIN files :
        (files[f].exists /\ files[f].folderId # NoId) =>
            /\ folders[files[f].folderId].exists
            /\ folders[files[f].folderId].userId = files[f].userId

---------------------------------------------------------------------------
(* Concurrent subscribe calls *)

ConcurrentSubscribes == 2     \* subscribe calls sent in one behaviour

InitSubscribe ==
    /\ now = 0
    /\ links = [l \in {} |-> NoLink]
    /\ files = [f \in {} |-> NoFile]
    /\ folders = [d \in {} |-> NoFile]
    /\ reqs = [r \in 1 .. ConcurrentSubscribes |-> IdleCall]
    /\ users = InitUsers
    /\ subs = [u \in Users |-> <<>>]
    /\ ups = [k \in {} |-> IdleUpload]
    /\ disk = {}
    /\ temp = {}

NextSubscribe ==
    \/ Subscribe
    \/ CreateSubscription
    \/ SubscriptionDeleted

SpecSubscribe == InitSubscribe /\ [][NextSubscribe]_vars

\* C30: no user has two subscription rows with status 'active'.
C30_OneActiveSubscription ==
    \A u \in Users :
        Cardinality({n \in DOMAIN subs[u] : subs[u][n].status = "active"}) <= 1

---------------------------------------------------------------------------
(* Link creation with a token that may be taken *)

MaxTokens     == 2    \* values crypto.randomBytes can return
MaxShareCalls == 2    \* share calls sent in one behaviour

\* A call of POST /:id/share, held in the request table
IdleShare ==
    [pc |-> "idle", op |-> "share", user |-> "u1", token |-> BadToken,
     attempts |-> 0, result |-> "none"]

\* The unique index on ShareLink.token: an INSERT with the token of an
\* existing row is rejected
tokenTaken(tok) == links[tok].exists

\* POST /:id/share with the token that randomBytes returned: the lookup of
\* the target, then one ShareLink.create; a rejected INSERT throws out of
\* the handler.
shareWithToken(u, tok, row) ==
    /\ IdleSlots # {}
    /\ links' = IF tokenTaken(tok) THEN links ELSE [links EXCEPT ![tok] = row]
    /\ reqs' = [reqs EXCEPT ![Least(IdleSlots)] =
                   [IdleShare EXCEPT !.pc = "done", !.user = u, !.token = tok,
                                     !.attempts = 1,
                                     !.result = IF tokenTaken(tok) THEN "ServerError"
                                                ELSE "Created"]]
    /\ UNCHANGED <<now, files, folders>>
    /\ UNCHANGED <<temp, users, subs, ups, disk>>

\* POST /files/:id/share
ShareFileWithToken ==
    \E u \in Users, f \in DOMAIN files, e \in ExpiresAtInputs, p \in SharePasswordInputs,
       m \in MaxDownloadsInputs, perm \in Permissions \cup {""}, tok \in DOMAIN links :
        /\ ownFile(u, f)
        /\ shareWithToken(u, tok, createShareLink(u, f, NoId, e, p, m, perm))

\* POST /folders/:id/share
ShareFolderWithToken ==
    \E u \in Users, d \in DOMAIN folders, e \in ExpiresAtInputs, p \in SharePasswordInputs,
       m \in MaxDownloadsInputs, perm \in Permissions \cup {""}, tok \in DOMAIN links :
        /\ ownFolder(u, d)
        /\ shareWithToken(u, tok, createShareLink(u, NoId, d, e, p, m, perm))

InitToken ==
    /\ now = 0
    /\ links = [l \in 1 .. MaxTokens |-> NoLink]
    /\ files = InitFiles
    /\ folders = InitFolders
    /\ reqs = [r \in 1 .. MaxShareCalls |-> IdleShare]
    /\ users = InitUsers
    /\ subs = [u \in Users |-> <<>>]
    /\ ups = [k \in {} |-> IdleUpload]
    /\ disk = {<<0, 1>>}
    /\ temp = {}

NextToken ==
    \/ ShareFileWithToken
    \/ ShareFolderWithToken

SpecToken == InitToken /\ [][NextToken]_vars

\* C23: a creation whose token collides is retried once with a new token: a
\* call fails only after two attempts, and a failed call has created no link.
C23_CollisionRetriedOnce ==
    \A r \in DOMAIN reqs :
        (reqs[r].pc = "done" /\ reqs[r].op = "share") =>
            /\ reqs[r].result = "ServerError" => reqs[r].attempts = 2
            /\ reqs[r].result = "Created" => links[reqs[r].token].exists

---------------------------------------------------------------------------
(* Registration and login *)

MaxAccounts     == 3    \* rows the Users table can hold
MaxAuthRequests == 2    \* register and login requests sent in one behaviour

AccountIds == 1 .. MaxAccounts
Emails == {"a@x", "b@x"}
LoginPasswords == {"pw1", "pw2"}
NoSecret == ""
NoToken  == ""

\* speakeasy: the one-time code of a secret, and its verification
Totp(secret) == "totp:" \o secret
TotpVerify(secret, token) == token = Totp(secret)

\* what a client can send as twoFactorToken: nothing, the current code of
\* the secret, or another six digits
TwoFactorInputs == {NoToken, Totp("s1"), "000000"}

\* A row of Users; loginLogs counts the Log rows with action 'user_login'
\* that carry the user's id
NoAccount ==
    [exists |-> FALSE, email |-> "", password |-> "", isVerified |-> FALSE,
     twoFactorEnabled |-> FALSE, twoFactorSecret |-> NoSecret,
     lastLogin |-> NoDate, loginLogs |-> 0]

IdleAuth ==
    [pc |-> "idle", op |-> "register", email |-> "", password |-> "",
     twoFactorToken |-> NoToken, id |-> 0, row |-> NoAccount, result |-> "none"]

\* User.findOne({ where: { email } }): the ids of the rows with that email
findByEmail(email) == {u \in DOMAIN users : users[u].exists /\ users[u].email = email}

\* A unique index that would reject nothing
emailTakenNever(email) == FALSE

\* The unique index on User.email: an INSERT with the email of an existing
\* row is rejected
emailTaken(email) == findByEmail(email) # {}

FreeAccounts == {u \in DOMAIN users : ~users[u].exists}

\* POST /register up to the await of User.create: the body is valid, and an
\* email that findOne finds is answered 400
Register ==
    \E email \in Emails, password \in LoginPasswords :
        /\ IdleSlots # {}
        /\ LET q == [IdleAuth EXCEPT !.op = "register", !.email = email,
                                     !.password = password]
           IN  reqs' = [reqs EXCEPT ![Least(IdleSlots)] =
                           IF findByEmail(email) # {}
                           THEN [q EXCEPT !.pc = "done", !.result = "AlreadyExists"]
                           ELSE [q EXCEPT !.pc = "create"]]
        /\ UNCHANGED <<files, folders, users, subs, ups, disk>>
        /\ UNCHANGED <<now, links, temp>>

\* User.create of POST /register: the beforeCreate hook hashes the password;
\* a rejected INSERT throws out of the handler
CreateUser ==
    \E r \in DOMAIN reqs :
        /\ reqs[r].pc = "create"
        /\ FreeAccounts # {}
        /\ LET q == reqs[r]
               u == Least(FreeAccounts)
           IN  IF emailTaken(q.email)
               THEN /\ users' = users
                    /\ reqs' = [reqs EXCEPT ![r] =
                                   [q EXCEPT !.pc = "done", !.result = "ServerError"]]
               ELSE /\ users' = [users EXCEPT ![u] =
                                    [NoAccount EXCEPT !.exists = TRUE, !.email = q.email,
                                                      !.password = BcryptHash(q.password)]]
                    /\ reqs' = [reqs EXCEPT ![r] =
                                   [q EXCEPT !.pc = "done", !.id = u, !.result = "Created"]]
        /\ UNCHANGED <<files, folders, subs, ups, disk>>
        /\ UNCHANGED <<now, links, temp>>

\* POST /verify-email with the token of the verification mail
VerifyEmail ==
    \E u \in DOMAIN users :
        /\ users[u].exists /\ ~users[u].isVerified
        /\ users' = [users EXCEPT ![u].isVerified = TRUE]
        /\ UNCHANGED <<files, folders, subs, ups, disk>>
        /\ UNCHANGED shareVars

\* POST /setup-2fa followed by POST /verify-2fa with the code of the new secret
Enable2FA ==
    \E u \in DOMAIN users :
        /\ users[u].exists /\ ~users[u].twoFactorEnabled
        /\ users' = [users EXCEPT ![u].twoFactorSecret = "s1",
                                  ![u].twoFactorEnabled = TRUE]
        /\ UNCHANGED <<files, folders, subs, ups, disk>>
        /\ UNCHANGED shareVars

\* POST /login up to the await of comparePassword
Login ==
    \E email \in Emails, password \in LoginPasswords, tok \in TwoFactorInputs :
        /\ IdleSlots # {}
        /\ LET q == [IdleAuth EXCEPT !.op = "login", !.email = email,
                                     !.password = password, !.twoFactorToken = tok]
           IN  \/ /\ findByEmail(email) = {}
                  /\ reqs' = [reqs EXCEPT ![Least(IdleSlots)] =
                                 [q EXCEPT !.pc = "done", !.result = "Unauthorized"]]
               \/ \E u \in findByEmail(email) :
                     reqs' = [reqs EXCEPT ![Least(IdleSlots)] =
                                 [q EXCEPT !.pc = "compare", !.id = u, !.row = users[u]]]
        /\ UNCHANGED <<files, folders, users, subs, ups, disk>>
        /\ UNCHANGED <<now, links, temp>>

\* User.prototype.comparePassword
comparePassword(row, candidatePassword) ==
    row.password # "" /\ BcryptCompare(candidatePassword, row.password)

\* A login that would not ask for a verified email
loginRefusedUnverifiedToo(row, password, tok) ==
    \/ ~comparePassword(row, password)
    \/ row.twoFactorEnabled /\ (tok = NoToken \/ ~TotpVerify(row.twoFactorSecret, tok))

\* The 401 returns of POST /login after findOne
loginRefused(row, password, tok) ==
    \/ ~comparePassword(row, password)
    \/ ~row.isVerified
    \/ row.twoFactorEnabled /\ (tok = NoToken \/ ~TotpVerify(row.twoFactorSecret, tok))

\* comparePassword resolves and the handler runs to `await user.save()`
LoginCheck ==
    \E r \in DOMAIN reqs :
        /\ reqs[r].pc = "compare"
        /\ LET q == reqs[r]
           IN  reqs' = [reqs EXCEPT ![r] =
                           IF loginRefused(q.row, q.password, q.twoFactorToken)
                           THEN [q EXCEPT !.pc = "done", !.result = "Unauthorized"]
                           ELSE [q EXCEPT !.row.lastLogin = now, !.pc = "save"]]
        /\ UNCHANGED <<files, folders, users, subs, ups, disk>>
        /\ UNCHANGED <<now, links, temp>>

\* user.save() writes lastLogin; the handler signs the JWT and awaits Log.create
LoginSave ==
    \E r \in DOMAIN reqs :
        /\ reqs[r].pc = "save" /\ reqs[r].op = "login"
        /\ users' = [users EXCEPT ![reqs[r].id].lastLogin = reqs[r].row.lastLogin]
        /\ reqs' = [reqs EXCEPT ![r].pc = "log"]
        /\ UNCHANGED <<files, folders, subs, ups, disk>>
        /\ UNCHANGED <<now, links, temp>>

\* Log.create({ action: 'user_login' }) and the 200 response with the token
LoginLog ==
    \E r \in DOMAIN reqs :
        /\ reqs[r].pc = "log"
        /\ users' = [users EXCEPT ![reqs[r].id].loginLogs = @ + 1]
        /\ reqs' = [reqs EXCEPT ![r].pc = "done", ![r].result = "LoggedIn"]
        /\ UNCHANGED <<files, folders, subs, ups, disk>>
        /\ UNCHANGED <<now, links, temp>>

\* One verified account exists
InitAuth ==
    /\ now = 0
    /\ links = [l \in {} |-> NoLink]
    /\ files = [f \in {} |-> NoFile]
    /\ folders = [d \in {} |-> NoFile]
    /\ reqs = [r \in 1 .. MaxAuthRequests |-> IdleAuth]
    /\ users = [u \in AccountIds |->
                  IF u = 1
                  THEN [NoAccount EXCEPT !.exists = TRUE, !.email = "a@x",
                                         !.password = BcryptHash("pw1"),
                                         !.isVerified = TRUE]
                  ELSE NoAccount]
    /\ subs = [u \in {} |-> <<>>]
    /\ ups = [k \in {} |-> IdleUpload]
    /\ disk = {}
    /\ temp = {}

NextAuth ==
    \/ Register
    \/ CreateUser
    \/ VerifyEmail
    \/ Enable2FA
    \/ Tick
    \/ Login
    \/ LoginCheck
    \/ LoginSave
    \/ LoginLog

SpecAuth == InitAuth /\ [][NextAuth]_vars

\* C21: a registration whose email belongs to a user is answered 400 and
\* creates no user, a registration that fails creates no user, and no two
\* users share an email.
C21_EmailsAreUnique ==
    /\ [](\A u1, u2 \in DOMAIN users :
            (users[u1].exists /\ users[u2].exists /\ users[u1].email = users[u2].email)
                => u1 = u2)
    /\ [][\A r \in DOMAIN reqs :
            (/\ reqs[r].pc = "idle" /\ reqs'[r].pc # "idle" /\ reqs'[r].op = "register"
             /\ \E u \in DOMAIN users : users[u].exists /\ users[u].email = reqs'[r].email)
                => (reqs'[r].result = "AlreadyExists" /\ users' = users)]_vars
    /\ [][\A r \in DOMAIN reqs :
            (reqs[r].result = "none"
             /\ reqs'[r].result \in {"AlreadyExists", "ServerError"})
                => users' = users]_vars

\* Two registrations of one email have overlapped: one has created the
\* user, the other has failed on the insert.
C21_Witness ==
    \E r1, r2 \in DOMAIN reqs :
        /\ reqs[r1].op = "register" /\ reqs[r1].result = "Created"
        /\ reqs[r2].op = "register" /\ reqs[r2].result = "ServerError"
        /\ reqs[r1].email = reqs[r2].email

\* The conditions of a successful login, on the user row the request loaded
LoginAccepted(q) ==
    /\ q.row.exists
    /\ q.row.password = BcryptHash(q.password)
    /\ q.row.isVerified
    /\ q.row.twoFactorEnabled => q.twoFactorToken = Totp(q.row.twoFactorSecret)

---------------------------------------------------------------------------
(* The folder tree *)

MaxFolders == 3     \* rows the Folders table can hold

FolderSlots == {"d1", "d2", "d3", "d4"}
FolderNames == {"docs", "pics"}

NoFolder ==
    [exists |-> FALSE, userId |-> NoId, parentId |-> NoId, isDeleted |-> FALSE,
     name |-> ""]

FreeFolders == {d \in DOMAIN folders : ~folders[d].exists}

\* what a client can send as parentId: nothing, or any id
ParentIdInputs == {NoId} \cup DOMAIN folders

\* A lookup of the parent that would accept every id
parentFoundAny(u, parentId) == TRUE

\* `Folder.findOne({ where: { id: parentId, userId } })` of POST /folders and
\* `Folder.findByPk(parentId)` of createFolder find the parent (Folder is
\* paranoid)
parentFound(u, parentId) ==
    /\ folders[parentId].exists
    /\ folders[parentId].userId = u
    /\ ~folders[parentId].isDeleted

\* POST /folders: the parent, when one is named, is looked up; then
\* fileService.createFolder inserts the row under a new id
CreateFolder ==
    \E u \in Users, parentId \in ParentIdInputs, name \in FolderNames :
        /\ Cardinality(DOMAIN folders \ FreeFolders) < MaxFolders
        /\ FreeFolders # {}
        /\ parentId # NoId => parentFound(u, parentId)
        /\ folders' = [folders EXCEPT ![CHOOSE d \in FreeFolders : TRUE] =
                          [NoFolder EXCEPT !.exists = TRUE, !.userId = u,
                                           !.parentId = parentId, !.name = name]]
        /\ UNCHANGED <<files, users, subs, ups, disk>>
        /\ UNCHANGED shareVars

\* PUT /folders/:id: name, description, color and icon of an own folder
UpdateFolder ==
    \E u \in Users, d \in DOMAIN folders, name \in FolderNames :
        /\ folders[d].exists /\ folders[d].userId = u /\ ~folders[d].isDeleted
        /\ folders' = [folders EXCEPT ![d].name = name]
        /\ UNCHANGED <<files, users, subs, ups, disk>>
        /\ UNCHANGED shareVars

InitFolderTree ==
    /\ now = 0
    /\ links = [l \in {} |-> NoLink]
    /\ files = [f \in {} |-> NoFile]
    /\ folders = [d \in FolderSlots |-> NoFolder]
    /\ reqs = [r \in {} |-> IdleReq]
    /\ users = InitUsers
    /\ subs = [u \in Users |-> <<>>]
    /\ ups = [k \in {} |-> IdleUpload]
    /\ disk = {}
    /\ temp = {}

NextFolderTree ==
    \/ CreateFolder
    \/ UpdateFolder
    \/ DeleteFolder

SpecFolderTree == InitFolderTree /\ [][NextFolderTree]_vars

\* The folders reached from d by n or fewer steps to the parent
RECURSIVE AncestorsOf(_, _)
AncestorsOf(d, n) ==
    IF n = 0 \/ folders[d].parentId = NoId THEN {}
    ELSE {folders[d].parentId} \cup AncestorsOf(folders[d].parentId, n - 1)

\* The recursion of getAllFiles can descend n levels below d
RECURSIVE Descends(_, _)
Descends(d, n) ==
    IF n = 0 THEN TRUE
    ELSE \E c \in DOMAIN folders :
            /\ folders[c].exists /\ folders[c].parentId = d /\ ~folders[c].isDeleted
            /\ Descends(c, n - 1)

\* C29: no folder is its own ancestor; a folder is created under a parent
\* that exists already and its parentId never changes; the recursion of
\* getAllFiles from any folder ends before it has descended as many levels
\* as there are folders.
C29_FolderTreeAcyclic ==
    /\ [](\A d \in DOMAIN folders :
            folders[d].exists =>
                /\ d \notin AncestorsOf(d, Cardinality(DOMAIN folders))
                /\ ~Descends(d, Cardinality(DOMAIN folders)))
    /\ [][\A d \in DOMAIN folders :
            folders[d].exists => folders'[d].parentId = folders[d].parentId]_vars
    /\ [][\A d \in DOMAIN folders :
            (~folders[d].exists /\ folders'[d].exists /\ folders'[d].parentId # NoId)
                => folders[folders'[d].parentId].exists]_vars

\* A chain of three folders exists and its middle folder has been renamed.
C29_Witness ==
    \E a, b, c \in DOMAIN folders :
        /\ folders[a].exists /\ folders[b].exists /\ folders[c].exists
        /\ folders[b].parentId = a /\ folders[c].parentId = b
        /\ folders[b].name # folders[c].name

=============================================================================
